---- MODULE Spec2Model ----
(***************************************************************************)
(* Model of the tactical symbol editor view model                          *)
(* (src/root/js/viewmodels/TacticalSymbolEditor.js) and of the REST client *)
(* it saves through (src/root/js/FireRestAPI.js).                          *)
(*                                                                         *)
(* JavaScript strings that the code slices, compares or concatenates       *)
(* (symbol codes, option values, function codes) are sequences of          *)
(* one-character strings; display names, which the code only copies, are   *)
(* TLA+ strings.  A Knockout observable is a variable holding either       *)
(* undefined or a record; writing it runs its subscriber unless the old    *)
(* and the new value are the same primitive (Knockout's default equality   *)
(* comparer treats every object write as a change).                        *)
(***************************************************************************)
EXTENDS Integers, Sequences, FiniteSets, Bags, TLC

VARIABLES
    emergency,            \* the parsed symbology catalog (JSON.parse result)
    symbol,               \* the symbol held by self.symbol: undefined or a symbol
    selectedScheme, selectedAffiliation, selectedStatus,
    selectedDimension, selectedFunction, selectedModifier1, selectedModifier2,
    dimensionOptions, functionOptions, modifierOptions1, modifierOptions2,
    dialogOpen,           \* the jQuery UI dialog is showing
    lastOp,               \* the handler that ran last
    edits,                \* selections made since the dialog was opened
    threw,                \* the handler that ran last raised an exception
    api,                  \* the REST client the application constructed
    manager,              \* the symbols the symbol manager holds
    xhrs,                 \* the requests in flight, a bag: one XMLHttpRequest per send
    outcome,              \* what the handler that ran last raised, returned and sent
    creates               \* the create requests sent for the symbol held

vars == <<emergency, symbol, selectedScheme, selectedAffiliation, selectedStatus,
          selectedDimension, selectedFunction, selectedModifier1, selectedModifier2,
          dimensionOptions, functionOptions, modifierOptions1, modifierOptions2,
          dialogOpen, lastOp, edits, threw, api, manager, xhrs, outcome,
          creates>>

\* JavaScript's undefined: the value of an observable nothing is selected in.
undefined == [undef |-> TRUE]

Min(a, b) == IF a < b THEN a ELSE b

\* String.prototype.substring(a, b) for 0 <= a <= b, clamped to the length.
Substring(s, a, b) == SubSeq(s, Min(a, Len(s)) + 1, Min(b, Len(s)))

\* Array.prototype.find, given for each element whether the callback's
\* result is truthy: the first element whose result is, else undefined.
Find(arr, hits) ==
    IF \E i \in 1..Len(arr) : hits[i]
    THEN arr[CHOOSE i \in 1..Len(arr) : hits[i] /\ \A j \in 1..(i-1) : ~hits[j]]
    ELSE undefined

(***************************************************************************)
(* Catalog data.  The catalog is the content of a bundled JSON file: an    *)
(* ordered mapping whose entries are dimensions (objects with a name, a    *)
(* "main icon" array and two modifier tables) or, for the scheme's own     *)
(* "name" key, a plain string, which has no name property.  The JSON keys  *)
(* "battle dimension", "main icon", "modifier 1" and "modifier 2" are      *)
(* written with underscores.                                               *)
(***************************************************************************)
NoCode == <<"-", "-", "-", "-", "-", "-">>
FireCode == <<"C", "-", "-", "-", "-", "-">>

Icon(bd, code, name) == [battle_dimension |-> <<bd>>, code |-> code, name |-> name]

Entry(name, icons, m1, m2) ==
    [name |-> name, main_icon |-> icons, modifier_1 |-> m1, modifier_2 |-> m2]

\* The scheme's "name" key: a string, so its .name is undefined (falsy).
NameEntry == Entry("", <<>>, <<>>, <<>>)

\* One battle dimension per catalog dimension.
CatalogPlain ==
    <<NameEntry,
      Entry("Incident",
            <<Icon("I", NoCode, <<"Incident">>),
              Icon("I", FireCode, <<"Incident", "Fire">>)>>,
            <<>>, <<>>),
      Entry("Ground Equipment",
            <<Icon("G", NoCode, <<"Equipment">>)>>,
            <<[key |-> <<"A">>, name |-> "Alpha"]>>,
            <<[key |-> <<"B">>, name |-> "Bravo"]>>)>>

\* (battle dimension, code) still unique in the scheme, but the second
\* dimension lists the same function code under two battle dimensions.
CatalogMixed ==
    <<NameEntry,
      Entry("Incident",
            <<Icon("I", FireCode, <<"Incident", "Fire">>)>>,
            <<>>, <<>>),
      Entry("Ground Equipment",
            <<Icon("G", NoCode, <<"Equipment">>),
              Icon("I", NoCode, <<"Equipment", "Incident Vehicle">>)>>,
            <<[key |-> <<"A">>, name |-> "Alpha"]>>,
            <<[key |-> <<"B">>, name |-> "Bravo"]>>)>>

\* One (battle dimension, code) pair listed in two dimensions.
CatalogShared ==
    <<NameEntry,
      Entry("Incident",
            <<Icon("I", FireCode, <<"Incident", "Fire">>)>>,
            <<>>, <<>>),
      Entry("Ground Equipment",
            <<Icon("G", NoCode, <<"Equipment">>),
              Icon("I", FireCode, <<"Equipment", "Fire Engine">>)>>,
            <<[key |-> <<"A">>, name |-> "Alpha"]>>,
            <<[key |-> <<"B">>, name |-> "Bravo"]>>)>>

Catalogs == {CatalogPlain, CatalogMixed, CatalogShared}

statusOptions == <<[value |-> <<"P">>, name |-> "P: Present"]>>

affiliationOptions == <<[value |-> <<"H">>, name |-> "H: Hostile"]>>

schemeOptions ==
    <<[value |-> <<"E">>, name |-> "E: Emergency", code |-> "EMS", symbols |-> emergency]>>

MobilityOptions ==
    <<[value |-> <<"O">>, name |-> "Wheeled/Limited XCountry"],
      [value |-> <<"P">>, name |-> "Wheeled Cross Country"],
      [value |-> <<"Q">>, name |-> "Tracked"],
      [value |-> <<"R">>, name |-> "Wheeled and Tracked"],
      [value |-> <<"S">>, name |-> "Towed"],
      [value |-> <<"T">>, name |-> "Rail"],
      [value |-> <<"U">>, name |-> "Over the Snow"],
      [value |-> <<"V">>, name |-> "Sled"],
      [value |-> <<"W">>, name |-> "Pack Animals"],
      [value |-> <<"X">>, name |-> "Barge"],
      [value |-> <<"Y">>, name |-> "Amphibious"]>>

TowedArrayOptions ==
    <<[value |-> <<"S">>, name |-> "Towed Array (Short)"],
      [value |-> <<"L">>, name |-> "Towed Array (Long)"]>>

GroundEquipmentOptions1 ==
    <<[value |-> <<"M">>, name |-> "Mobility"],
      [value |-> <<"N">>, name |-> "Towed Array"]>>

(***************************************************************************)
(* The editor's observables as one record, so that a handler is a chain of *)
(* writes, each followed by its subscriber.                                *)
(***************************************************************************)
Self ==
    [selectedScheme |-> selectedScheme, selectedAffiliation |-> selectedAffiliation,
     selectedStatus |-> selectedStatus, selectedDimension |-> selectedDimension,
     selectedFunction |-> selectedFunction, selectedModifier1 |-> selectedModifier1,
     selectedModifier2 |-> selectedModifier2, dimensionOptions |-> dimensionOptions,
     functionOptions |-> functionOptions, modifierOptions1 |-> modifierOptions1,
     modifierOptions2 |-> modifierOptions2, threw |-> FALSE]

\* One pushed dimension option (lines 118-122).
DimensionOption(e) ==
    [name |-> e.name, functions |-> e.main_icon,
     modifiers1 |-> e.modifier_1, modifiers2 |-> e.modifier_2]

\* The loop of lines 116-124: the named entries, in catalog order.
BuildDimensionOptions(symbols) ==
    LET named == SelectSeq(symbols, LAMBDA e : e.name # "")
    IN  [i \in 1..Len(named) |-> DimensionOption(named[i])]

\* The subscriber without its removeAll call: the options are appended.
SchemeSubscriberAppends(s, scheme) ==
    IF scheme = undefined
    THEN [s EXCEPT !.threw = TRUE]
    ELSE [s EXCEPT !.dimensionOptions =
                       s.dimensionOptions \o BuildDimensionOptions(scheme.symbols)]

\* selectedScheme.subscribe: reading scheme.symbols of undefined raises a
\* TypeError after the option list has been emptied.
SchemeSubscriber(s, scheme) ==
    IF scheme = undefined
    THEN [s EXCEPT !.dimensionOptions = <<>>, !.threw = TRUE]
    ELSE [s EXCEPT !.dimensionOptions = BuildDimensionOptions(scheme.symbols)]

\* One pushed function option: "\u2013 " repeated once per ancestor, then
\* the last element of the name hierarchy (a sequence of the pieces).
FunctionOption(item) ==
    [name |-> [i \in 1..Len(item.name) |->
                  IF i < Len(item.name) THEN "- " ELSE item.name[i]],
     function |-> item]

ModifierOption(m) == [value |-> m.key, name |-> m.name]

\* The modifier-1 options with M and N appended for every dimension.
BuildModifierOptions1Always(dimension) ==
    [i \in 1..Len(dimension.modifiers1) |-> ModifierOption(dimension.modifiers1[i])]
    \o GroundEquipmentOptions1

BuildModifierOptions1(dimension) ==
    [i \in 1..Len(dimension.modifiers1) |-> ModifierOption(dimension.modifiers1[i])]
    \o (IF dimension.name = "Ground Equipment" THEN GroundEquipmentOptions1 ELSE <<>>)

BuildModifierOptions2(dimension) ==
    [i \in 1..Len(dimension.modifiers2) |-> ModifierOption(dimension.modifiers2[i])]

\* The subscriber emptying the dimension option list as well.
DimensionSubscriberClearsAll(s, dimension) ==
    IF dimension = undefined
    THEN [s EXCEPT !.dimensionOptions = <<>>, !.functionOptions = <<>>,
                   !.modifierOptions1 = <<>>, !.modifierOptions2 = <<>>]
    ELSE [s EXCEPT !.dimensionOptions = <<>>,
                   !.functionOptions =
                       [i \in 1..Len(dimension.functions) |->
                           FunctionOption(dimension.functions[i])],
                   !.modifierOptions1 = BuildModifierOptions1(dimension),
                   !.modifierOptions2 = BuildModifierOptions2(dimension)]

\* selectedDimension.subscribe.
DimensionSubscriber(s, dimension) ==
    IF dimension = undefined
    THEN [s EXCEPT !.functionOptions = <<>>, !.modifierOptions1 = <<>>,
                   !.modifierOptions2 = <<>>]
    ELSE [s EXCEPT !.functionOptions =
                       [i \in 1..Len(dimension.functions) |->
                           FunctionOption(dimension.functions[i])],
                   !.modifierOptions1 = BuildModifierOptions1(dimension),
                   !.modifierOptions2 = BuildModifierOptions2(dimension)]

\* The subscriber without its removeAll calls: the entries are appended.
Modifier1SubscriberAppends(s, modifier1) ==
    IF modifier1 = undefined THEN s
    ELSE IF modifier1.value = <<"M">>
         THEN [s EXCEPT !.modifierOptions2 = s.modifierOptions2 \o MobilityOptions]
    ELSE IF modifier1.value = <<"N">>
         THEN [s EXCEPT !.modifierOptions2 = s.modifierOptions2 \o TowedArrayOptions]
    ELSE s

\* The subscriber restoring the dimension's list for every other value.
Modifier1SubscriberResets(s, modifier1) ==
    IF modifier1 # undefined /\ modifier1.value = <<"M">>
         THEN [s EXCEPT !.modifierOptions2 = MobilityOptions]
    ELSE IF modifier1 # undefined /\ modifier1.value = <<"N">>
         THEN [s EXCEPT !.modifierOptions2 = TowedArrayOptions]
    ELSE IF s.selectedDimension = undefined THEN [s EXCEPT !.modifierOptions2 = <<>>]
    ELSE [s EXCEPT !.modifierOptions2 = BuildModifierOptions2(s.selectedDimension)]

\* selectedModifier1.subscribe.
Modifier1Subscriber(s, modifier1) ==
    IF modifier1 = undefined THEN s
    ELSE IF modifier1.value = <<"M">> THEN [s EXCEPT !.modifierOptions2 = MobilityOptions]
    ELSE IF modifier1.value = <<"N">> THEN [s EXCEPT !.modifierOptions2 = TowedArrayOptions]
    ELSE s

\* A write to an observable notifies its subscribers unless the old value is
\* a primitive equal to the new one; here that is undefined over undefined.
Notifies(old, new) == ~(old = undefined /\ new = undefined)

WriteScheme(s, v) ==
    IF Notifies(s.selectedScheme, v)
    THEN SchemeSubscriber([s EXCEPT !.selectedScheme = v], v)
    ELSE s

WriteDimension(s, v) ==
    IF Notifies(s.selectedDimension, v)
    THEN DimensionSubscriber([s EXCEPT !.selectedDimension = v], v)
    ELSE s

WriteModifier1(s, v) ==
    IF Notifies(s.selectedModifier1, v)
    THEN Modifier1Subscriber([s EXCEPT !.selectedModifier1 = v], v)
    ELSE s

\* Array.prototype.find returning the last match instead of the first.
FindLast(arr, hits) ==
    IF \E i \in 1..Len(arr) : hits[i]
    THEN arr[CHOOSE i \in 1..Len(arr) : hits[i] /\ \A j \in (i+1)..Len(arr) : ~hits[j]]
    ELSE undefined

\* The dimension lookup keeping the last dimension that holds the function.
FindDimensionLast(options, battleDim, functionId) ==
    FindLast(options,
         [k \in 1..Len(options) |->
             Find(options[k].functions,
                  [n \in 1..Len(options[k].functions) |->
                      /\ options[k].functions[n].battle_dimension = battleDim
                      /\ options[k].functions[n].code = functionId])
             # undefined])

\* The dimension lookup of lines 213-218.
FindDimension(options, battleDim, functionId) ==
    Find(options,
         [k \in 1..Len(options) |->
             Find(options[k].functions,
                  [n \in 1..Len(options[k].functions) |->
                      /\ options[k].functions[n].battle_dimension = battleDim
                      /\ options[k].functions[n].code = functionId])
             # undefined])

\* The function lookup of lines 224-226.
FindFunction(options, functionId) ==
    Find(options, [k \in 1..Len(options) |-> options[k].function.code = functionId])

\* The lookups by option value (lines 208-210, 230-232, 235-237, 240-242,
\* 245-247).
FindValue(options, v) ==
    Find(options, [k \in 1..Len(options) |-> options[k].value = v])

\* Decode resolving modifier2 before modifier1 is written.
DecodeModifier2First(s0, symbolCode) ==
    LET codingScheme   == Substring(symbolCode, 0, 1)
        stdIdenitiy    == Substring(symbolCode, 1, 2)
        battleDim      == Substring(symbolCode, 2, 3)
        statusValue    == Substring(symbolCode, 3, 4)
        functionId     == Substring(symbolCode, 4, 10)
        modifierValue1 == Substring(symbolCode, 10, 11)
        modifierValue2 == Substring(symbolCode, 11, 12)
        s1 == WriteScheme(s0, FindValue(schemeOptions, codingScheme))
        s2 == WriteDimension(s1, FindDimension(s1.dimensionOptions, battleDim, functionId))
        s3 == IF s2.selectedDimension # undefined
              THEN [s2 EXCEPT !.selectedFunction = FindFunction(s2.functionOptions, functionId)]
              ELSE s2
        s4 == [s3 EXCEPT !.selectedAffiliation = FindValue(affiliationOptions, stdIdenitiy),
                         !.selectedStatus = FindValue(statusOptions, statusValue)]
        s5 == WriteModifier1(s4, FindValue(s4.modifierOptions1, modifierValue1))
        s6 == [s5 EXCEPT !.selectedModifier2 = FindValue(s4.modifierOptions2, modifierValue2)]
    IN  IF s1.threw THEN s1 ELSE s6

\* symbol.subscribe: decode a symbol code into the selections.
Decode(s0, symbolCode) ==
    LET codingScheme   == Substring(symbolCode, 0, 1)
        stdIdenitiy    == Substring(symbolCode, 1, 2)
        battleDim      == Substring(symbolCode, 2, 3)
        statusValue    == Substring(symbolCode, 3, 4)
        functionId     == Substring(symbolCode, 4, 10)
        modifierValue1 == Substring(symbolCode, 10, 11)
        modifierValue2 == Substring(symbolCode, 11, 12)
        s1 == WriteScheme(s0, FindValue(schemeOptions, codingScheme))
        s2 == WriteDimension(s1, FindDimension(s1.dimensionOptions, battleDim, functionId))
        s3 == IF s2.selectedDimension # undefined
              THEN [s2 EXCEPT !.selectedFunction = FindFunction(s2.functionOptions, functionId)]
              ELSE s2
        s4 == [s3 EXCEPT !.selectedAffiliation = FindValue(affiliationOptions, stdIdenitiy),
                         !.selectedStatus = FindValue(statusOptions, statusValue)]
        s5 == WriteModifier1(s4, FindValue(s4.modifierOptions1, modifierValue1))
        s6 == [s5 EXCEPT !.selectedModifier2 = FindValue(s5.modifierOptions2, modifierValue2)]
    IN  IF s1.threw THEN s1 ELSE s6

\* Encode with a five-character default for the function code.
EncodeShortDefault(s) ==
    LET icon == IF s.selectedFunction # undefined THEN s.selectedFunction.function ELSE undefined
    IN  (IF s.selectedScheme # undefined THEN s.selectedScheme.value ELSE <<"S">>)
        \o (IF s.selectedAffiliation # undefined THEN s.selectedAffiliation.value ELSE <<"U">>)
        \o (IF icon # undefined THEN icon.battle_dimension ELSE <<"Z">>)
        \o (IF s.selectedStatus # undefined THEN s.selectedStatus.value ELSE <<"-">>)
        \o (IF icon # undefined THEN icon.code ELSE <<"-", "-", "-", "-", "-">>)
        \o (IF s.selectedModifier1 # undefined THEN s.selectedModifier1.value ELSE <<"-">>)
        \o (IF s.selectedModifier2 # undefined THEN s.selectedModifier2.value ELSE <<"-">>)

\* Encode with the status placed before the battle dimension.
EncodeStatusFirst(s) ==
    LET icon == IF s.selectedFunction # undefined THEN s.selectedFunction.function ELSE undefined
    IN  (IF s.selectedScheme # undefined THEN s.selectedScheme.value ELSE <<"S">>)
        \o (IF s.selectedAffiliation # undefined THEN s.selectedAffiliation.value ELSE <<"U">>)
        \o (IF s.selectedStatus # undefined THEN s.selectedStatus.value ELSE <<"-">>)
        \o (IF icon # undefined THEN icon.battle_dimension ELSE <<"Z">>)
        \o (IF icon # undefined THEN icon.code ELSE NoCode)
        \o (IF s.selectedModifier1 # undefined THEN s.selectedModifier1.value ELSE <<"-">>)
        \o (IF s.selectedModifier2 # undefined THEN s.selectedModifier2.value ELSE <<"-">>)

\* The code onSave builds (lines 258-275).
Encode(s) ==
    LET icon              == IF s.selectedFunction # undefined THEN s.selectedFunction.function ELSE undefined
        codingScheme      == IF s.selectedScheme # undefined THEN s.selectedScheme.value ELSE <<"S">>
        stdIdentity       == IF s.selectedAffiliation # undefined THEN s.selectedAffiliation.value ELSE <<"U">>
        operationalStatus == IF s.selectedStatus # undefined THEN s.selectedStatus.value ELSE <<"-">>
        battleDim         == IF icon # undefined THEN icon.battle_dimension ELSE <<"Z">>
        functionId        == IF icon # undefined THEN icon.code ELSE NoCode
        modifier1         == IF s.selectedModifier1 # undefined THEN s.selectedModifier1.value ELSE <<"-">>
        modifier2         == IF s.selectedModifier2 # undefined THEN s.selectedModifier2.value ELSE <<"-">>
    IN  codingScheme \o stdIdentity \o battleDim \o operationalStatus
        \o functionId \o modifier1 \o modifier2

\* Copy a computed editor record back into the variables.
Becomes(s) ==
    /\ selectedScheme' = s.selectedScheme
    /\ selectedAffiliation' = s.selectedAffiliation
    /\ selectedStatus' = s.selectedStatus
    /\ selectedDimension' = s.selectedDimension
    /\ selectedFunction' = s.selectedFunction
    /\ selectedModifier1' = s.selectedModifier1
    /\ selectedModifier2' = s.selectedModifier2
    /\ dimensionOptions' = s.dimensionOptions
    /\ functionOptions' = s.functionOptions
    /\ modifierOptions1' = s.modifierOptions1
    /\ modifierOptions2' = s.modifierOptions2
    /\ threw' = s.threw

Range(f) == {f[i] : i \in DOMAIN f}

(***************************************************************************)
(* Inputs: the 12-character codes a caller opens the editor on, and the    *)
(* options a user picks in the dialog.                                     *)
(***************************************************************************)
IdentityStatus == {<<"H", "P">>, <<"U", "-">>}
BattleDimChars == {"I", "G"}
FunctionIds == {NoCode, FireCode}
ModifierPairs == {<<"-", "-">>, <<"A", "B">>, <<"M", "O">>, <<"N", "L">>}
Modifier2Chars == {"-", "B", "O", "S", "L"}

\* A 12-character code from its segments.
Code(c, it, b, f, mm) == <<c, it[1], b, it[2]>> \o f \o mm

\* Codes of the one known scheme vary in every segment (the modifiers, with
\* a known identity and status); codes of an unknown scheme vary in the
\* identity and status segments.
Codes ==
    {Code("E", <<"H", "P">>, b, f, mm) :
        b \in BattleDimChars, f \in FunctionIds, mm \in ModifierPairs}
    \cup {Code("E", it, b, f, <<"-", "-">>) :
              it \in IdentityStatus, b \in BattleDimChars, f \in FunctionIds}
    \cup {Code("X", it, "I", FireCode, <<"-", "-">>) : it \in IdentityStatus}

(***************************************************************************)
(* JavaScript values of the REST part: null, NaN, numbers, strings (as     *)
(* character sequences) and booleans are records of different shapes, so   *)
(* that values of different types can be compared.                         *)
(***************************************************************************)
null == [null |-> TRUE]
NaN == [nan |-> TRUE]
Num(n) == [num |-> n]
Str(cs) == [str |-> cs]
Bool(b) == [bool |-> b]

TypeOf(v) ==
    IF v = undefined THEN "undefined"
    ELSE IF "str" \in DOMAIN v THEN "string"
    ELSE IF "num" \in DOMAIN v \/ v = NaN THEN "number"
    ELSE IF "bool" \in DOMAIN v THEN "boolean"
    ELSE "object"

\* ToBoolean, as the conditions if (!x) and if (x) apply it.
Truthy(v) ==
    /\ v \notin {undefined, null, NaN, Num(0), Str(<<>>), Bool(FALSE)}

Digits == <<"0", "1", "2", "3", "4", "5", "6", "7", "8", "9">>
IsDigit(c) == \E d \in 1..Len(Digits) : Digits[d] = c
DigitValue(c) == (CHOOSE d \in 1..Len(Digits) : Digits[d] = c) - 1

RECURSIVE Decimal(_)
\* The number a sequence of digits denotes.
Decimal(cs) ==
    IF cs = <<>> THEN 0
    ELSE 10 * Decimal(SubSeq(cs, 1, Len(cs) - 1)) + DigitValue(cs[Len(cs)])

\* The longest prefix of digits of a character sequence.
DigitPrefix(cs) ==
    LET n == CHOOSE k \in 0..Len(cs) :
                 /\ \A i \in 1..k : IsDigit(cs[i])
                 /\ k < Len(cs) => ~IsDigit(cs[k + 1])
    IN  SubSeq(cs, 1, n)

\* parseFloat on numbers and on strings of unsigned integers: the numeric
\* prefix of the text, NaN when there is none.
ParseFloat(v) ==
    IF TypeOf(v) = "number" THEN v
    ELSE IF TypeOf(v) = "string" /\ DigitPrefix(v.str) # <<>>
         THEN Num(Decimal(DigitPrefix(v.str)))
    ELSE NaN

\* ToNumber, as the == operator applies it to operands of different types.
ToNumber(v) ==
    IF TypeOf(v) = "number" THEN v
    ELSE IF TypeOf(v) = "boolean" THEN Num(IF v.bool THEN 1 ELSE 0)
    ELSE IF TypeOf(v) = "string"
         THEN IF DigitPrefix(v.str) = v.str THEN Num(Decimal(v.str)) ELSE NaN
    ELSE NaN

\* The == operator of JavaScript (a != b is its negation).
LooseEquals(a, b) ==
    IF a = NaN \/ b = NaN THEN FALSE
    ELSE IF a \in {null, undefined} \/ b \in {null, undefined}
         THEN a \in {null, undefined} /\ b \in {null, undefined}
    ELSE IF TypeOf(a) = TypeOf(b) THEN a = b
    ELSE ToNumber(a) # NaN /\ ToNumber(a) = ToNumber(b)

\* The decimal numeral of a natural number.
RECURSIVE NumeralOf(_)
NumeralOf(n) ==
    IF n < 10 THEN <<Digits[n + 1]>>
    ELSE NumeralOf(n \div 10) \o <<Digits[(n % 10) + 1]>>

\* String(v) in a concatenation: the numeral of a number, "true" or
\* "false", "undefined", "null", "NaN", and "[object Object]" for an object.
StringOf(v) ==
    IF TypeOf(v) = "string" THEN v.str
    ELSE IF v = undefined THEN <<"u", "n", "d", "e", "f", "i", "n", "e", "d">>
    ELSE IF v = null THEN <<"n", "u", "l", "l">>
    ELSE IF v = NaN THEN <<"N", "a", "N">>
    ELSE IF TypeOf(v) = "number"
    THEN IF v.num < 0 THEN <<"-">> \o NumeralOf(-v.num) ELSE NumeralOf(v.num)
    ELSE IF TypeOf(v) = "boolean"
    THEN IF v.bool THEN <<"t", "r", "u", "e">> ELSE <<"f", "a", "l", "s", "e">>
    ELSE <<"[", "o", "b", "j", "e", "c", "t", " ", "O", "b", "j", "e", "c", "t", "]">>

\* s.replace(pattern, "") with a one-character string pattern: the first
\* occurrence is dropped.
ReplaceFirst(cs, c) ==
    IF \E i \in 1..Len(cs) : cs[i] = c
    THEN LET i == CHOOSE k \in 1..Len(cs) :
                      cs[k] = c /\ \A j \in 1..(k - 1) : cs[j] # c
         IN  SubSeq(cs, 1, i - 1) \o SubSeq(cs, i + 1, Len(cs))
    ELSE cs

\* The value JSON.stringify writes for a member of the body: NaN becomes
\* null.  (A member that is undefined is left out of the text; the body
\* record keeps it as undefined.)
JsonValue(v) == IF v = NaN THEN null ELSE v

(***************************************************************************)
(* FireRestAPI.js.  A call is summarised by what it raised, what it        *)
(* returned and the requests it sent.                                      *)
(***************************************************************************)
Returns(v, requests) == [raised |-> "none", returned |-> v, sent |-> requests]
Raises(kind) == [raised |-> kind, returned |-> undefined, sent |-> <<>>]

\* The WorldWind library object, reached as a global or passed as the
\* constructor's second argument.
WorldWind == [ArgumentError |-> TRUE]

\* The symbol manager the application holds.
SymbolManager == [symbolManager |-> TRUE]

FiresUrl == <<"http://nasaspaceappschallenge2018.ddns.net:8081/api/fires/">>

\* new FireRestAPI(dataSource, WorldWind): the second parameter hides the
\* global, so the guard's throw reads ArgumentError off the argument.
FireRestAPI(dataSource, ww) ==
    IF ~Truthy(dataSource)
    THEN IF ww = undefined THEN Raises("TypeError") ELSE Raises("ArgumentError")
    ELSE Returns([dataSource |-> dataSource], <<>>)

Request(method, url, body) == [method |-> method, url |-> url, body |-> body]

\* requestFiresXHR(symbolManager): one GET, no body; its handler keeps the
\* symbol manager it was given.
RequestFiresXHR(client, symbolManager) ==
    Returns(undefined,
            <<[method |-> "GET", url |-> client.dataSource, body |-> null,
               symbolManager |-> symbolManager]>>)

\* retrieveFires(symbolManager).
RetrieveFires(client, symbolManager) ==
    IF TypeOf(client.dataSource) = "string"
    THEN IF Truthy(symbolManager)
         THEN Returns(Bool(TRUE), RequestFiresXHR(client, symbolManager).sent)
         ELSE Raises("ArgumentError")
    ELSE Raises("ArgumentError")

\* createFireXHR: one POST with the position.
CreateFireXHR(client, params) ==
    Returns(undefined,
            <<Request("POST", client.dataSource,
                      [lat |-> JsonValue(params.lat), lon |-> JsonValue(params.lon),
                       alt |-> JsonValue(params.alt)])>>)

\* createFire(symbolManager, params).
CreateFire(client, symbolManager, params) ==
    IF TypeOf(client.dataSource) = "string"
    THEN IF Truthy(symbolManager)
         THEN CreateFireXHR(client, params)
         ELSE Raises("ArgumentError")
    ELSE Raises("ArgumentError")

\* updateFireXHR: the extinguished time loses its first two dashes; a time
\* that is neither null nor a string has no replace method, and the call
\* raises before the request is sent.
UpdateFireXHR(client, params) ==
    IF params.exttime # null /\ TypeOf(params.exttime) # "string"
    THEN Raises("TypeError")
    ELSE LET dateString ==
                 IF params.exttime = null THEN Str(<<>>)
                 ELSE Str(ReplaceFirst(ReplaceFirst(params.exttime.str, "-"), "-"))
         IN  Returns(undefined,
                     <<Request("PUT", client.dataSource,
                               [lat |-> JsonValue(params.lat),
                                lon |-> JsonValue(params.lon),
                                alt |-> JsonValue(params.alt),
                                verified |-> JsonValue(params.verified),
                                exttime |-> dateString])>>)

\* updateFire(symbolManager, params).
UpdateFire(client, symbolManager, params) ==
    IF TypeOf(client.dataSource) = "string"
    THEN IF Truthy(symbolManager)
         THEN UpdateFireXHR(client, params)
         ELSE Raises("ArgumentError")
    ELSE Raises("ArgumentError")

\* FireRestAPI.tryParseJSONString: the parsed object, null for a text that
\* is not JSON.  A response is either the JSON text of an object or a text
\* that does not parse.
TryParseJSONString(response) ==
    IF "json" \in DOMAIN response THEN response.json ELSE null

\* The tactical symbol handleFires builds for one record of the data array.
FireSymbol(row) == [symbolCode |-> <<"E", "H", "I", "P">> \o FireCode \o <<"-", "-">>,
                    fid |-> row.fid]

\* handleFires walking the records from the last to the first.
HandleFiresBackwards(obj, symbolManager, symbols) ==
    IF ~Truthy(obj) THEN [raised |-> "ArgumentError", symbols |-> symbols]
    ELSE IF ~Truthy(symbolManager)
    THEN [raised |-> "ArgumentError", symbols |-> symbols]
    ELSE IF "data" \notin DOMAIN obj THEN [raised |-> "TypeError", symbols |-> symbols]
    ELSE [raised |-> "none",
          symbols |-> symbols \o [i \in 1..Len(obj.data) |->
                                     FireSymbol(obj.data[Len(obj.data) + 1 - i])]]

\* handleFires(obj, symbolManager), symbols being what the manager holds:
\* the two guards, then one symbol per record of obj.data, in order.
HandleFires(obj, symbolManager, symbols) ==
    IF ~Truthy(obj) THEN [raised |-> "ArgumentError", symbols |-> symbols]
    ELSE IF ~Truthy(symbolManager)
    THEN [raised |-> "ArgumentError", symbols |-> symbols]
    ELSE IF "data" \notin DOMAIN obj THEN [raised |-> "TypeError", symbols |-> symbols]
    ELSE [raised |-> "none",
          symbols |-> symbols \o [i \in 1..Len(obj.data) |-> FireSymbol(obj.data[i])]]

(***************************************************************************)
(* The symbols the editor is opened on.                                    *)
(***************************************************************************)
\* A fire as retrieved and not changed since: every current value equals
\* the recorded database value.
Fire(code) ==
    [manager |-> SymbolManager, symbolCode |-> code, fid |-> Num(7),
     userCreated |-> FALSE,
     dbLat |-> Num(1), dbLon |-> Num(1), dbAlt |-> Num(0),
     latitude |-> Num(1), longitude |-> Num(1), altitude |-> Num(0),
     dbTimeExtinguished |-> null, koTimeExtinguished |-> null,
     dbIsVerified |-> Bool(FALSE), koIsVerified |-> Bool(FALSE)]

\* A symbol the user placed and that was never saved.
UserCreated(code) ==
    [Fire(code) EXCEPT !.userCreated = TRUE, !.dbLat = null, !.dbLon = null,
                       !.dbAlt = null, !.fid = undefined]

ExtinguishedDate == <<"2", "0", "1", "8", "-", "1", "0", "-", "2", "0">>

FireSymbolCode == <<"E", "H", "I", "P">> \o FireCode \o <<"-", "-">>

\* The symbols of the REST specification: in sync, moved (the text field
\* holds the latitude as a string), moved with an extinguished time that was
\* never set, extinguished, verified, user-created, and user-created and
\* verified in the dialog before its first save.  Every symbol
\* carries the manager it was constructed with (line 248).
RestSymbols ==
    {Fire(FireSymbolCode),
     [Fire(FireSymbolCode) EXCEPT !.latitude = Str(<<"2">>)],
     [Fire(FireSymbolCode) EXCEPT !.latitude = Str(<<"2">>),
                                  !.koTimeExtinguished = undefined],
     [Fire(FireSymbolCode) EXCEPT !.koTimeExtinguished = Str(ExtinguishedDate)],
     [Fire(FireSymbolCode) EXCEPT !.koIsVerified = Bool(TRUE)],
     UserCreated(FireSymbolCode),
     [UserCreated(FireSymbolCode) EXCEPT !.koIsVerified = Bool(TRUE)]}

\* onSave without the assignments that record the database position after a
\* create.
OnSaveRestForgets(sym) ==
    LET params == [lat |-> ParseFloat(sym.latitude),
                   lon |-> ParseFloat(sym.longitude),
                   alt |-> ParseFloat(sym.altitude),
                   verified |-> sym.koIsVerified,
                   exttime |-> sym.koTimeExtinguished]
    IN  IF sym.userCreated /\ LooseEquals(sym.dbLat, null)
        THEN LET CreateFireQuery == FireRestAPI(Str(FiresUrl), undefined).returned
                 r == CreateFire(CreateFireQuery, sym.manager, params)
             IN  [symbol |-> sym, raised |-> r.raised,
                  sent |-> IF r.raised # "none" THEN <<>> ELSE r.sent]
        ELSE IF \/ ~LooseEquals(sym.dbLat, params.lat)
                \/ ~LooseEquals(sym.dbLon, params.lon)
                \/ ~LooseEquals(sym.dbAlt, params.alt)
                \/ ~LooseEquals(sym.dbTimeExtinguished, sym.koTimeExtinguished)
                \/ ~LooseEquals(sym.dbIsVerified, sym.koIsVerified)
        THEN LET updateFireQuery ==
                     FireRestAPI(Str(FiresUrl \o StringOf(sym.fid)), undefined).returned
                 r == UpdateFire(updateFireQuery, sym.manager, params)
             IN  [symbol |-> sym, raised |-> r.raised, sent |-> r.sent]
        ELSE [symbol |-> sym, raised |-> "none", sent |-> <<>>]

\* The REST part of onSave (lines 280-301): the symbol after it, what it
\* raised and the requests it sent.
OnSaveRest(sym) ==
    LET params == [lat |-> ParseFloat(sym.latitude),
                   lon |-> ParseFloat(sym.longitude),
                   alt |-> ParseFloat(sym.altitude),
                   verified |-> sym.koIsVerified,
                   exttime |-> sym.koTimeExtinguished]
    IN  IF sym.userCreated /\ LooseEquals(sym.dbLat, null)
        THEN LET CreateFireQuery == FireRestAPI(Str(FiresUrl), undefined).returned
                 r == CreateFire(CreateFireQuery, sym.manager, params)
             IN  IF r.raised # "none"
                 THEN [symbol |-> sym, raised |-> r.raised, sent |-> <<>>]
                 ELSE [symbol |-> [sym EXCEPT !.dbLat = params.lat,
                                              !.dbLon = params.lon,
                                              !.dbAlt = params.alt],
                       raised |-> "none", sent |-> r.sent]
        ELSE IF \/ ~LooseEquals(sym.dbLat, params.lat)
                \/ ~LooseEquals(sym.dbLon, params.lon)
                \/ ~LooseEquals(sym.dbAlt, params.alt)
                \/ ~LooseEquals(sym.dbTimeExtinguished, sym.koTimeExtinguished)
                \/ ~LooseEquals(sym.dbIsVerified, sym.koIsVerified)
        THEN LET updateFireQuery ==
                     FireRestAPI(Str(FiresUrl \o StringOf(sym.fid)), undefined).returned
                 r == UpdateFire(updateFireQuery, sym.manager, params)
             IN  [symbol |-> sym, raised |-> r.raised, sent |-> r.sent]
        ELSE [symbol |-> sym, raised |-> "none", sent |-> <<>>]

\* Inputs of the REST client when the application calls it directly.
DataSources == {Str(FiresUrl), Str(<<>>), null, undefined, [data |-> <<>>]}
WorldWindArguments == {undefined, WorldWind}
SymbolManagers == {SymbolManager, undefined}
ExtinguishedTimes == {null, Str(ExtinguishedDate), undefined}
Params(exttime) ==
    [lat |-> Num(1), lon |-> Num(1), alt |-> Num(0), verified |-> Bool(FALSE),
     exttime |-> exttime]
CreateParams == {Params(null)}
UpdateParams == {Params(e) : e \in ExtinguishedTimes}

\* The responses a retrieval receives: a text that is not JSON, and data
\* arrays of no and of two records.
Row(n) == [fid |-> Num(n)]
Responses ==
    {[text |-> "<html>"], [json |-> [data |-> <<>>]],
     [json |-> [data |-> <<Row(1), Row(2)>>]]}

\* What tryParseJSONString makes of the responses: the objects handleFires
\* is called with.
ParsedResponses == {TryParseJSONString(b) : b \in Responses}

\* How a request ends: a status 200 with a response, another status, a
\* network error, a timeout.
Results ==
    {[event |-> "load", status |-> 200, response |-> b] : b \in Responses}
    \cup {[event |-> "load", status |-> 500, response |-> [text |-> ""]],
          [event |-> "error", status |-> 0, response |-> [text |-> ""]],
          [event |-> "timeout", status |-> 0, response |-> [text |-> ""]]}

\* The requests in flight at one time.
MaxXhr == 2

\* The symbols the symbol manager holds.
MaxSymbols == 4

\* The number of selections a user makes in one session of the dialog.
MaxEdits == 1

\* The create requests counted for one symbol.
MaxCreates == 2

\* The view model after construction, nothing opened, nothing sent.
Constructed ==
    /\ symbol = undefined
    /\ selectedScheme = undefined
    /\ selectedAffiliation = undefined
    /\ selectedStatus = undefined
    /\ selectedDimension = undefined
    /\ selectedFunction = undefined
    /\ selectedModifier1 = undefined
    /\ selectedModifier2 = undefined
    /\ dimensionOptions = <<>>
    /\ functionOptions = <<>>
    /\ modifierOptions1 = <<>>
    /\ modifierOptions2 = <<>>
    /\ dialogOpen = FALSE
    /\ lastOp = "init"
    /\ edits = 0
    /\ threw = FALSE
    /\ manager = <<>>
    /\ xhrs = EmptyBag
    /\ outcome = Returns(undefined, <<>>)
    /\ creates = 0

Init ==
    /\ emergency \in Catalogs
    /\ api = undefined
    /\ Constructed

\* open(symbol): the symbol observable is written, its subscriber decodes the
\* code, and the dialog is shown unless the decode raised.
Open(sym) ==
    LET s == Decode(Self, sym.symbolCode)
    IN  /\ symbol' = sym
        /\ Becomes(s)
        /\ dialogOpen' = (dialogOpen \/ ~s.threw)
        /\ lastOp' = "open"
        /\ edits' = 0
        /\ outcome' = IF s.threw THEN Raises("TypeError") ELSE Returns(undefined, <<>>)
        /\ creates' = 0
        /\ UNCHANGED <<emergency, api, manager, xhrs>>

\* open(symbol) on the symbol the editor holds already, as when the user
\* opens the dialog on the same symbol again: the observable is written with
\* the same object and its subscriber decodes the code the symbol has now.
Reopen ==
    /\ symbol # undefined
    /\ LET s == Decode(Self, symbol.symbolCode)
       IN  /\ Becomes(s)
           /\ dialogOpen' = (dialogOpen \/ ~s.threw)
           /\ outcome' = IF s.threw THEN Raises("TypeError")
                         ELSE Returns(undefined, <<>>)
    /\ lastOp' = "open"
    /\ edits' = 0
    /\ UNCHANGED <<emergency, symbol, api, manager, xhrs, creates>>

\* The requests in flight after a handler has sent requests: each xhr.send
\* adds one, also when an equal request is in flight already.
RECURSIVE Sends(_, _)
Sends(inFlight, requests) ==
    IF requests = <<>> THEN inFlight
    ELSE Sends(inFlight (+) SetToBag({Head(requests)}), Tail(requests))

\* The create requests among the requests a handler sent.
Posts(requests) ==
    Cardinality({i \in DOMAIN requests : requests[i].method = "POST"})

\* The dialog's Save button: onSave (the code is written to the symbol,
\* then the REST part runs), then close; an exception of onSave leaves the
\* dialog open.
Save ==
    LET r == OnSaveRest([symbol EXCEPT !.symbolCode = Encode(Self)])
    IN  /\ dialogOpen
        /\ BagCardinality(xhrs) + Len(r.sent) <= MaxXhr
        /\ creates + Posts(r.sent) <= MaxCreates
        /\ creates' = creates + Posts(r.sent)
        /\ symbol' = r.symbol
        /\ xhrs' = Sends(xhrs, r.sent)
        /\ dialogOpen' = (r.raised # "none")
        /\ lastOp' = "save"
        /\ edits' = 0
        /\ threw' = (r.raised # "none")
        /\ outcome' = [raised |-> r.raised, returned |-> undefined, sent |-> r.sent]
        /\ UNCHANGED <<emergency, selectedScheme, selectedAffiliation, selectedStatus,
                       selectedDimension, selectedFunction, selectedModifier1,
                       selectedModifier2, dimensionOptions, functionOptions,
                       modifierOptions1, modifierOptions2, api, manager>>

\* onSave() called on the view model, not through the Save button: the
\* dialog is left as it is.  Without a symbol self.symbol() is undefined and
\* line 278 raises a TypeError.
CallOnSave ==
    /\ lastOp' = "save"
    /\ IF symbol = undefined
       THEN /\ threw' = TRUE
            /\ outcome' = Raises("TypeError")
            /\ UNCHANGED <<symbol, xhrs, creates>>
       ELSE LET r == OnSaveRest([symbol EXCEPT !.symbolCode = Encode(Self)])
            IN  /\ BagCardinality(xhrs) + Len(r.sent) <= MaxXhr
                /\ creates + Posts(r.sent) <= MaxCreates
                /\ creates' = creates + Posts(r.sent)
                /\ symbol' = r.symbol
                /\ xhrs' = Sends(xhrs, r.sent)
                /\ threw' = (r.raised # "none")
                /\ outcome' = [raised |-> r.raised, returned |-> undefined,
                               sent |-> r.sent]
    /\ UNCHANGED <<emergency, selectedScheme, selectedAffiliation, selectedStatus,
                   selectedDimension, selectedFunction, selectedModifier1,
                   selectedModifier2, dimensionOptions, functionOptions,
                   modifierOptions1, modifierOptions2, dialogOpen, edits, api,
                   manager>>

\* The Cancel button wired to what the Save button does.
CancelSaves ==
    LET r == OnSaveRest([symbol EXCEPT !.symbolCode = Encode(Self)])
    IN  /\ dialogOpen
        /\ BagCardinality(xhrs) + Len(r.sent) <= MaxXhr
        /\ creates + Posts(r.sent) <= MaxCreates
        /\ creates' = creates + Posts(r.sent)
        /\ symbol' = r.symbol
        /\ xhrs' = Sends(xhrs, r.sent)
        /\ dialogOpen' = (r.raised # "none")
        /\ lastOp' = "cancel"
        /\ edits' = 0
        /\ threw' = (r.raised # "none")
        /\ outcome' = [raised |-> r.raised, returned |-> undefined, sent |-> r.sent]
        /\ UNCHANGED <<emergency, selectedScheme, selectedAffiliation, selectedStatus,
                       selectedDimension, selectedFunction, selectedModifier1,
                       selectedModifier2, dimensionOptions, functionOptions,
                       modifierOptions1, modifierOptions2, api, manager>>

\* The dialog's Cancel button.
Cancel ==
    /\ dialogOpen
    /\ dialogOpen' = FALSE
    /\ lastOp' = "cancel"
    /\ edits' = 0
    /\ threw' = FALSE
    /\ outcome' = Returns(undefined, <<>>)
    /\ UNCHANGED <<emergency, symbol, selectedScheme, selectedAffiliation, selectedStatus,
                   selectedDimension, selectedFunction, selectedModifier1,
                   selectedModifier2, dimensionOptions, functionOptions,
                   modifierOptions1, modifierOptions2, api, manager, xhrs,
                   creates>>

\* A selection made by the user in the open dialog: the editor becomes s.
Selects(s) ==
    /\ dialogOpen
    /\ edits < MaxEdits
    /\ lastOp' = "select"
    /\ edits' = edits + 1
    /\ Becomes(s)
    /\ outcome' = IF s.threw THEN Raises("TypeError") ELSE Returns(undefined, <<>>)
    /\ UNCHANGED <<emergency, symbol, dialogOpen, api, manager, xhrs, creates>>

\* The user picks a scheme in the dialog.
SelectScheme(v) == Selects(WriteScheme(Self, v))

\* The user picks a dimension, or none.
SelectDimension(v) == Selects(WriteDimension(Self, v))

\* The user picks a function, or none.
SelectFunction(v) == Selects([Self EXCEPT !.selectedFunction = v])

\* The user picks a first modifier, or none.
SelectModifier1(v) == Selects(WriteModifier1(Self, v))

\* The user picks a second modifier, or none.
SelectModifier2(v) == Selects([Self EXCEPT !.selectedModifier2 = v])

\* The user picks an affiliation, or none.
SelectAffiliation(v) == Selects([Self EXCEPT !.selectedAffiliation = v])

\* The user picks a status, or none.
SelectStatus(v) == Selects([Self EXCEPT !.selectedStatus = v])

\* The second-modifier options a user picks among: those whose value is in
\* the alphabet of the opened codes.
Pickable2 == {o \in Range(modifierOptions2) : o.value[1] \in Modifier2Chars}

\* The variables of the editor, which the REST client never touches.
editor == <<emergency, symbol, selectedScheme, selectedAffiliation, selectedStatus,
            selectedDimension, selectedFunction, selectedModifier1,
            selectedModifier2, dimensionOptions, functionOptions,
            modifierOptions1, modifierOptions2, dialogOpen, edits>>

\* The application constructs its REST client.
Construct(dataSource, ww) ==
    LET r == FireRestAPI(dataSource, ww)
    IN  /\ api' = IF r.raised = "none" THEN r.returned ELSE api
        /\ lastOp' = "construct"
        /\ threw' = (r.raised # "none")
        /\ outcome' = r
        /\ UNCHANGED <<editor, manager, xhrs, creates>>

\* A call of the client by the application: the requests it sent are in
\* flight.
Calls(op, r) ==
    /\ BagCardinality(xhrs) + Len(r.sent) <= MaxXhr
    /\ xhrs' = Sends(xhrs, r.sent)
    /\ lastOp' = op
    /\ threw' = (r.raised # "none")
    /\ outcome' = r
    /\ UNCHANGED <<editor, api, manager, creates>>

\* The application calls retrieveFires on its client.
CallRetrieveFires(symbolManager) ==
    /\ api # undefined
    /\ Calls("retrieve", RetrieveFires(api, symbolManager))

\* The application calls createFire on its client.
CallCreateFire(symbolManager, params) ==
    /\ api # undefined
    /\ Calls("create", CreateFire(api, symbolManager, params))

\* The application calls updateFire on its client.
CallUpdateFire(symbolManager, params) ==
    /\ api # undefined
    /\ Calls("update", UpdateFire(api, symbolManager, params))

\* The application calls requestFiresXHR on its client: no guard, the GET
\* is sent whatever the data source and the manager are.
CallRequestFiresXHR(symbolManager) ==
    /\ api # undefined
    /\ Calls("requestFiresXHR", RequestFiresXHR(api, symbolManager))

\* The application calls createFireXHR on its client.
CallCreateFireXHR(params) ==
    /\ api # undefined
    /\ Calls("createFireXHR", CreateFireXHR(api, params))

\* The application calls updateFireXHR on its client.
CallUpdateFireXHR(params) ==
    /\ api # undefined
    /\ Calls("updateFireXHR", UpdateFireXHR(api, params))

\* The application calls handleFires on its client, with an object it
\* parsed and a manager: the guards, then the symbols are added.
CallHandleFires(obj, symbolManager) ==
    LET h == HandleFires(obj, symbolManager, manager)
    IN  /\ api # undefined
        /\ Len(h.symbols) <= MaxSymbols
        /\ manager' = h.symbols
        /\ lastOp' = "handleFires"
        /\ threw' = (h.raised # "none")
        /\ outcome' = IF h.raised # "none" THEN Raises(h.raised)
                      ELSE Returns(undefined, <<>>)
        /\ UNCHANGED <<editor, api, xhrs, creates>>

\* The application calls FireRestAPI.tryParseJSONString on a response text.
CallTryParseJSONString(response) ==
    /\ lastOp' = "tryParseJSONString"
    /\ threw' = FALSE
    /\ outcome' = Returns(TryParseJSONString(response), <<>>)
    /\ UNCHANGED <<editor, api, manager, xhrs, creates>>

\* A request in flight ends: onreadystatechange runs with readyState 4
\* (for a retrieval with status 200, handleFires adds the symbols), then
\* onerror or ontimeout, which read the undeclared name url.
Complete(req, result) ==
    LET h == IF req.method = "GET" /\ result.status = 200
             THEN HandleFires(TryParseJSONString(result.response),
                              req.symbolManager, manager)
             ELSE [raised |-> "none", symbols |-> manager]
    IN  /\ BagIn(req, xhrs)
        /\ Len(h.symbols) <= MaxSymbols
        /\ xhrs' = xhrs (-) SetToBag({req})
        /\ manager' = h.symbols
        /\ lastOp' = IF result.status = 200 THEN "done" ELSE "fail"
        /\ threw' = (h.raised # "none" \/ result.event # "load")
        /\ outcome' = IF result.event # "load" THEN Raises("ReferenceError")
                      ELSE IF h.raised # "none" THEN Raises(h.raised)
                      ELSE Returns(undefined, <<>>)
        /\ UNCHANGED <<editor, api, creates>>

\* The fires the editor is opened on: one per code, each in sync with the
\* database.
Fires == {Fire(code) : code \in Codes}

Next ==
    \/ \E sym \in Fires : Open(sym)
    \/ Save
    \/ Cancel
    \/ \E v \in Range(schemeOptions) : SelectScheme(v)
    \/ \E v \in Range(dimensionOptions) \cup {undefined} : SelectDimension(v)
    \/ \E v \in Range(functionOptions) \cup {undefined} : SelectFunction(v)
    \/ \E v \in Range(modifierOptions1) \cup {undefined} : SelectModifier1(v)
    \/ \E v \in Pickable2 \cup {undefined} : SelectModifier2(v)
    \/ \E v \in Range(affiliationOptions) \cup {undefined} : SelectAffiliation(v)
    \/ \E v \in Range(statusOptions) \cup {undefined} : SelectStatus(v)

Spec == Init /\ [][Next]_vars

\* Saving and cancelling, without edits, on symbols that differ in what a
\* save has to send, beside an application that retrieves the fires
\* through the client it constructed for the fires URL.
InitRest ==
    /\ emergency = CatalogPlain
    /\ api = FireRestAPI(Str(FiresUrl), WorldWind).returned
    /\ Constructed

NextRest ==
    \/ \E sym \in RestSymbols : Open(sym)
    \/ Reopen
    \/ Save
    \/ CallOnSave
    \/ Cancel
    \/ \E m \in SymbolManagers : CallRetrieveFires(m)
    \/ \E req \in BagToSet(xhrs), result \in Results : Complete(req, result)

SpecRest == InitRest /\ [][NextRest]_vars

\* Edit sessions on a fire in sync, on a moved fire and on a symbol the
\* user created: what is saved is sent, and the requests end.
EditSymbols ==
    {Fire(FireSymbolCode),
     [Fire(FireSymbolCode) EXCEPT !.latitude = Str(<<"2">>)],
     UserCreated(FireSymbolCode)}

InitEdit ==
    /\ emergency = CatalogPlain
    /\ api = undefined
    /\ Constructed

NextEdit ==
    \/ \E sym \in EditSymbols : Open(sym)
    \/ Save
    \/ CallOnSave
    \/ Cancel
    \/ \E v \in Range(schemeOptions) : SelectScheme(v)
    \/ \E v \in Range(dimensionOptions) \cup {undefined} : SelectDimension(v)
    \/ \E v \in Range(functionOptions) \cup {undefined} : SelectFunction(v)
    \/ \E v \in Range(modifierOptions1) \cup {undefined} : SelectModifier1(v)
    \/ \E v \in Pickable2 \cup {undefined} : SelectModifier2(v)
    \/ \E v \in Range(affiliationOptions) \cup {undefined} : SelectAffiliation(v)
    \/ \E v \in Range(statusOptions) \cup {undefined} : SelectStatus(v)
    \/ \E req \in BagToSet(xhrs), result \in Results : Complete(req, result)

SpecEdit == InitEdit /\ [][NextEdit]_vars

\* The REST client called by the application, on every kind of argument.
InitApi ==
    /\ emergency = CatalogPlain
    /\ api = undefined
    /\ Constructed

NextApi ==
    \/ \E d \in DataSources, w \in WorldWindArguments : Construct(d, w)
    \/ \E m \in SymbolManagers : CallRetrieveFires(m)
    \/ \E m \in SymbolManagers, p \in CreateParams : CallCreateFire(m, p)
    \/ \E m \in SymbolManagers, p \in UpdateParams : CallUpdateFire(m, p)
    \/ \E m \in SymbolManagers : CallRequestFiresXHR(m)
    \/ \E p \in CreateParams : CallCreateFireXHR(p)
    \/ \E p \in UpdateParams : CallUpdateFireXHR(p)
    \/ \E obj \in ParsedResponses, m \in SymbolManagers : CallHandleFires(obj, m)
    \/ \E b \in Responses : CallTryParseJSONString(b)
    \/ \E req \in BagToSet(xhrs), result \in Results : Complete(req, result)

SpecApi == InitApi /\ [][NextApi]_vars

(***************************************************************************)
(* Vocabulary of the properties, read off the catalog and the fixed option *)
(* lists rather than off the decoder.                                      *)
(***************************************************************************)
Opened == symbol.symbolCode

\* The catalog's named dimensions and all their functions.
NamedEntries == {e \in Range(emergency) : e.name # ""}
CatalogFunctions == UNION {Range(e.main_icon) : e \in NamedEntries}

Values(options) == {o.value : o \in Range(options)}
Keys(table) == {m.key : m \in Range(table)}

SchemeKnown(code) == <<code[1]>> \in Values(schemeOptions)
AffiliationKnown(code) == <<code[2]>> \in Values(affiliationOptions)
StatusKnown(code) == <<code[4]>> \in Values(statusOptions)

\* The entries holding a function with the code's battle dimension and
\* function code.
EntriesOf(code) ==
    {e \in NamedEntries :
        \E f \in Range(e.main_icon) :
            f.battle_dimension = <<code[3]>> /\ f.code = SubSeq(code, 5, 10)}
FunctionKnown(code) == EntriesOf(code) # {}

\* Both modifier characters name an option of a dimension holding the
\* code's function: a table entry, M or N for Ground Equipment, and for the
\* second modifier an entry of the list the first one brings up.
ModifiersKnown(code) ==
    \E e \in EntriesOf(code) :
        /\ \/ <<code[11]>> \in Keys(e.modifier_1)
           \/ e.name = "Ground Equipment" /\ code[11] \in {"M", "N"}
        /\ IF e.name = "Ground Equipment" /\ code[11] = "M"
             THEN <<code[12]>> \in Values(MobilityOptions)
           ELSE IF e.name = "Ground Equipment" /\ code[11] = "N"
             THEN <<code[12]>> \in Values(TowedArrayOptions)
           ELSE <<code[12]>> \in Keys(e.modifier_2)

WellFormed(code) ==
    /\ SchemeKnown(code) /\ AffiliationKnown(code) /\ StatusKnown(code)
    /\ FunctionKnown(code) /\ ModifiersKnown(code)

\* Within the scheme a (battle dimension, code) pair names one function.
PairsUnique ==
    \A e1, e2 \in NamedEntries :
        \A i \in DOMAIN e1.main_icon, j \in DOMAIN e2.main_icon :
            (e1.main_icon[i].battle_dimension = e2.main_icon[j].battle_dimension
             /\ e1.main_icon[i].code = e2.main_icon[j].code)
            => (e1 = e2 /\ i = j)

\* The selection holding only a scheme and a function.
SelectionOf(scheme, f) ==
    [selectedScheme |-> scheme, selectedAffiliation |-> undefined,
     selectedStatus |-> undefined, selectedDimension |-> undefined,
     selectedFunction |-> FunctionOption(f), selectedModifier1 |-> undefined,
     selectedModifier2 |-> undefined]

NothingSelected ==
    /\ selectedScheme = undefined /\ selectedAffiliation = undefined
    /\ selectedStatus = undefined /\ selectedDimension = undefined
    /\ selectedFunction = undefined /\ selectedModifier1 = undefined
    /\ selectedModifier2 = undefined

\* C1: opening a code whose (battle dimension, function code) segment
\* matches no catalog function leaves dimension and function unset, and
\* scheme, affiliation and status are resolved when their segments match.
C1_UnknownFunctionUnset ==
    (lastOp = "open" /\ ~FunctionKnown(Opened)) =>
        /\ selectedDimension = undefined
        /\ selectedFunction = undefined
        /\ SchemeKnown(Opened) =>
               (selectedScheme # undefined /\ selectedScheme.value = <<Opened[1]>>)
        /\ AffiliationKnown(Opened) =>
               (selectedAffiliation # undefined
                /\ selectedAffiliation.value = <<Opened[2]>>)
        /\ StatusKnown(Opened) =>
               (selectedStatus # undefined /\ selectedStatus.value = <<Opened[4]>>)

\* C2: opening a code whose first character matches no scheme option
\* leaves the scheme unset and clears dimension, function, both modifiers
\* and the dimension, function and modifier option lists.
C2_UnknownSchemeClears ==
    (lastOp = "open" /\ ~SchemeKnown(Opened)) =>
        /\ selectedScheme = undefined
        /\ selectedDimension = undefined
        /\ selectedFunction = undefined
        /\ selectedModifier1 = undefined
        /\ selectedModifier2 = undefined
        /\ dimensionOptions = <<>>
        /\ functionOptions = <<>>
        /\ modifierOptions1 = <<>>
        /\ modifierOptions2 = <<>>

\* C3: opening any 12-character code completes without raising an
\* exception, whichever segments fail to match.
C3_DecodeNeverThrows == lastOp = "open" => ~threw

\* C4: when the user changes the selected scheme, dimension, function and
\* both modifiers are unset afterwards.
C4_SchemeChangeClears ==
    [][(lastOp' = "select" /\ selectedScheme' # selectedScheme) =>
          /\ selectedDimension' = undefined
          /\ selectedFunction' = undefined
          /\ selectedModifier1' = undefined
          /\ selectedModifier2' = undefined]_vars

\* C5: when the user changes the selected dimension, function and both
\* modifiers are unset afterwards.
C5_DimensionChangeClears ==
    [][(lastOp' = "select" /\ selectedDimension' # selectedDimension) =>
          /\ selectedFunction' = undefined
          /\ selectedModifier1' = undefined
          /\ selectedModifier2' = undefined]_vars

\* C6: a selected function is one of the selected dimension's functions; a
\* selected modifier's key is in the selected dimension's table or in the
\* synthetic extensions (M, N for Ground Equipment; mobility and towed
\* array for the second modifier).
C6_SelectionInvariant ==
    /\ selectedFunction # undefined =>
          /\ selectedDimension # undefined
          /\ selectedFunction.function \in Range(selectedDimension.functions)
    /\ selectedModifier1 # undefined =>
          /\ selectedDimension # undefined
          /\ \/ selectedModifier1.value \in Keys(selectedDimension.modifiers1)
             \/ /\ selectedDimension.name = "Ground Equipment"
                /\ selectedModifier1.value \in {<<"M">>, <<"N">>}
    /\ selectedModifier2 # undefined =>
          /\ selectedDimension # undefined
          /\ \/ selectedModifier2.value \in Keys(selectedDimension.modifiers2)
             \/ selectedModifier2.value \in
                    Values(MobilityOptions) \cup Values(TowedArrayOptions)

\* C7: opening a code whose every segment matches an option and saving at
\* once writes back the same code.
C7_DecodeEncodeIdempotent ==
    [][(lastOp = "open" /\ WellFormed(Opened) /\ lastOp' = "save") =>
          symbol'.symbolCode = Opened]_vars

\* C8: with (battle dimension, code) unique in the scheme, opening the code
\* of a selection built from the scheme and a catalog function f selects
\* that scheme and that function f, battle dimension included.
C8_RoundTripPerFunction ==
    (lastOp = "open" /\ PairsUnique) =>
        \A f \in CatalogFunctions :
            Opened = Encode(SelectionOf(schemeOptions[1], f)) =>
                /\ selectedScheme = schemeOptions[1]
                /\ selectedFunction # undefined
                /\ selectedFunction.function = f
                /\ selectedFunction.function.battle_dimension = f.battle_dimension

\* C9: in every reachable selection state the code save builds is defined
\* and 12 characters long, and so is the code a save has written.
C9_EncodeFixedWidth ==
    /\ Len(Encode(Self)) = 12
    /\ lastOp = "save" => Len(symbol.symbolCode) = 12

\* A save with scheme, function and modifier1 selected and affiliation,
\* status and modifier2 unset.
C9_Witness ==
    /\ lastOp = "save"
    /\ selectedScheme # undefined
    /\ selectedFunction # undefined
    /\ selectedModifier1 # undefined
    /\ selectedAffiliation = undefined
    /\ selectedStatus = undefined
    /\ selectedModifier2 = undefined
    /\ Len(symbol.symbolCode) = 12

\* C10: a saved code holds, in the order scheme, affiliation, battle
\* dimension, status, function, modifier1, modifier2, each field's value
\* when it is set and its default S, U, Z, -, ------, -, - when it is not;
\* an empty selection saves "SUZ---------".
C10_EncodeDefaults ==
    lastOp = "save" =>
        /\ Len(symbol.symbolCode) = 12
        /\ symbol.symbolCode[1] =
              (IF selectedScheme = undefined THEN "S" ELSE selectedScheme.value[1])
        /\ symbol.symbolCode[2] =
              (IF selectedAffiliation = undefined THEN "U" ELSE selectedAffiliation.value[1])
        /\ symbol.symbolCode[3] =
              (IF selectedFunction = undefined THEN "Z"
               ELSE selectedFunction.function.battle_dimension[1])
        /\ symbol.symbolCode[4] =
              (IF selectedStatus = undefined THEN "-" ELSE selectedStatus.value[1])
        /\ \A i \in 1..6 :
              symbol.symbolCode[4 + i] =
                  (IF selectedFunction = undefined THEN "-"
                   ELSE selectedFunction.function.code[i])
        /\ symbol.symbolCode[11] =
              (IF selectedModifier1 = undefined THEN "-" ELSE selectedModifier1.value[1])
        /\ symbol.symbolCode[12] =
              (IF selectedModifier2 = undefined THEN "-" ELSE selectedModifier2.value[1])
        /\ NothingSelected =>
              symbol.symbolCode = <<"S", "U", "Z", "-", "-", "-", "-", "-", "-", "-", "-", "-">>

\* A save of the empty selection.
C10_Witness ==
    /\ lastOp = "save"
    /\ NothingSelected
    /\ symbol.symbolCode = <<"S", "U", "Z", "-", "-", "-", "-", "-", "-", "-", "-", "-">>

\* The option values of a list, in list order.
KeysOf(options) == [i \in 1..Len(options) |-> options[i].value[1]]
NamesOf(options) == [i \in 1..Len(options) |-> options[i].name]

MobilityKeys == <<"O", "P", "Q", "R", "S", "T", "U", "V", "W", "X", "Y">>
TowedArrayKeys == <<"S", "L">>

\* The opened code resolves: its scheme is known and its function is one of
\* the catalog's.
Resolves(code) == SchemeKnown(code) /\ FunctionKnown(code)

\* C12: setting modifier1 to the option M replaces the modifier-2 option
\* list by exactly the 11 mobility entries O..Y in that order, and setting
\* it to N by exactly the 2 towed-array entries S, L; so for the user's
\* pick and for the modifier1 an open resolves.
C12_Modifier1Cascade ==
    [][/\ \A v \in Range(modifierOptions1) :
              SelectModifier1(v) =>
                  /\ v.value = <<"M">> =>
                        (KeysOf(modifierOptions2') = MobilityKeys
                         /\ modifierOptions2' = MobilityOptions)
                  /\ v.value = <<"N">> =>
                        (KeysOf(modifierOptions2') = TowedArrayKeys
                         /\ modifierOptions2' = TowedArrayOptions)
       /\ (lastOp' = "open" /\ ~threw' /\ selectedModifier1' # undefined) =>
              /\ selectedModifier1'.value = <<"M">> =>
                    KeysOf(modifierOptions2') = MobilityKeys
              /\ selectedModifier1'.value = <<"N">> =>
                    KeysOf(modifierOptions2') = TowedArrayKeys]_vars

\* The user picked M on a symbol whose code resolved modifier1 to A.
C12_Witness ==
    /\ lastOp = "select"
    /\ Resolves(Opened) /\ Opened[11] = "A"
    /\ selectedModifier1 # undefined
    /\ selectedModifier1.value = <<"M">>
    /\ Len(modifierOptions2) = 11
    /\ KeysOf(modifierOptions2) = MobilityKeys

\* C13: when the user sets modifier1 to none or to an option other than M
\* and N, the modifier-2 option list stays exactly as it was.
C13_OtherModifier1KeepsOptions2 ==
    [][\A v \in Range(modifierOptions1) \cup {undefined} :
          (SelectModifier1(v) /\ (v = undefined \/ v.value \notin {<<"M">>, <<"N">>}))
              => modifierOptions2' = modifierOptions2]_vars

\* The user picked A on a symbol whose code resolved modifier1 to M: the
\* mobility list is still showing.
C13_Witness ==
    /\ lastOp = "select"
    /\ Resolves(Opened) /\ Opened[11] = "M"
    /\ selectedModifier1 # undefined
    /\ selectedModifier1.value = <<"A">>
    /\ modifierOptions2 = MobilityOptions

\* The keys of a catalog modifier table, in table order.
TableKeys(table) == [i \in 1..Len(table) |-> table[i].key[1]]

\* What the dimension cascade is to leave in the modifier-1 option list.
ExpectedKeys1(dimension) ==
    TableKeys(dimension.modifiers1)
    \o (IF dimension.name = "Ground Equipment" THEN <<"M", "N">> ELSE <<>>)

\* C14: after a dimension is selected the modifier-1 option list is the
\* dimension's modifier-1 table in table order, followed by M (Mobility) and
\* N (Towed Array) exactly when the dimension is named "Ground Equipment",
\* and the modifier-2 option list is the dimension's modifier-2 table; the
\* modifier-1 list is the same after an open that resolves a dimension.
C14_DimensionCascade ==
    [][/\ \A v \in Range(dimensionOptions) :
              SelectDimension(v) =>
                  /\ KeysOf(modifierOptions1') = ExpectedKeys1(v)
                  /\ v.name = "Ground Equipment" =>
                        /\ Len(modifierOptions1') = Len(v.modifiers1) + 2
                        /\ SubSeq(NamesOf(modifierOptions1'), Len(v.modifiers1) + 1,
                                  Len(v.modifiers1) + 2) = <<"Mobility", "Towed Array">>
                  /\ v.name # "Ground Equipment" =>
                        Len(modifierOptions1') = Len(v.modifiers1)
                  /\ \A i \in 1..Len(v.modifiers1) :
                        modifierOptions1'[i].name = v.modifiers1[i].name
                  /\ KeysOf(modifierOptions2') = TableKeys(v.modifiers2)
                  /\ \A i \in 1..Len(v.modifiers2) :
                        modifierOptions2'[i].name = v.modifiers2[i].name
       /\ (lastOp' = "open" /\ ~threw' /\ selectedDimension' # undefined) =>
              KeysOf(modifierOptions1') = ExpectedKeys1(selectedDimension')]_vars

\* The user picked Ground Equipment on a symbol whose code is an Incident's.
C14_Witness ==
    /\ lastOp = "select"
    /\ Resolves(Opened) /\ Opened[3] = "I" /\ Opened[5] = "C"
    /\ selectedDimension # undefined
    /\ selectedDimension.name = "Ground Equipment"
    /\ KeysOf(modifierOptions1) = <<"A", "M", "N">>
    /\ KeysOf(modifierOptions2) = <<"B">>

\* The catalog positions of the named entries, and the k-th of them.
NamedPositions == {i \in 1..Len(emergency) : emergency[i].name # ""}
NthNamed(k) ==
    CHOOSE j \in NamedPositions : Cardinality({i \in NamedPositions : i < j}) = k - 1

\* The option list is the named entries, each once, in catalog order.
ExactlyNamedEntries(options) ==
    /\ Len(options) = Cardinality(NamedPositions)
    /\ \A k \in 1..Len(options) :
          /\ options[k].name = emergency[NthNamed(k)].name
          /\ options[k].functions = emergency[NthNamed(k)].main_icon
          /\ options[k].modifiers1 = emergency[NthNamed(k)].modifier_1
          /\ options[k].modifiers2 = emergency[NthNamed(k)].modifier_2

\* C15: after a scheme is selected, by the user or by an open, the
\* dimension option list is exactly the scheme's entries that have a name,
\* in catalog order, with nothing left over and nothing twice.
C15_SchemeCascade ==
    [][/\ \A v \in Range(schemeOptions) :
              SelectScheme(v) => ExactlyNamedEntries(dimensionOptions')
       /\ (lastOp' = "open" /\ ~threw' /\ selectedScheme' # undefined) =>
              ExactlyNamedEntries(dimensionOptions')]_vars

\* The user picked the scheme on a symbol whose code names no scheme.
C15_Witness ==
    /\ lastOp = "select"
    /\ ~SchemeKnown(Opened)
    /\ selectedScheme # undefined
    /\ NamesOf(dimensionOptions) = <<"Incident", "Ground Equipment">>

\* The first option of a list with the given one-character value.
FirstWithValue(options, c) ==
    IF \E i \in 1..Len(options) : options[i].value = <<c>>
    THEN options[CHOOSE i \in 1..Len(options) :
                    /\ options[i].value = <<c>>
                    /\ \A j \in 1..(i - 1) : options[j].value # <<c>>]
    ELSE undefined

\* Every dimension holding the opened code's function is Ground Equipment.
InGroundEquipment(code) ==
    /\ Resolves(code)
    /\ \A e \in EntriesOf(code) : e.name = "Ground Equipment"

\* C16: decoding a code whose function lies in Ground Equipment and whose
\* modifier-1 character is M (N) matches the modifier-2 character against
\* the mobility (towed-array) list, so a key in O..Y (S, L) resolves to
\* that entry; in general modifier2 is the first entry with the code's
\* modifier-2 character in the list as it stands once modifier1 is set.
C16_Modifier2AfterCascade ==
    (lastOp = "open" /\ ~threw) =>
        /\ selectedModifier2 = FirstWithValue(modifierOptions2, Opened[12])
        /\ (InGroundEquipment(Opened) /\ Opened[11] = "M"
             /\ <<Opened[12]>> \in Values(MobilityOptions)) =>
               /\ selectedModifier2 # undefined
               /\ selectedModifier2 = FirstWithValue(MobilityOptions, Opened[12])
        /\ (InGroundEquipment(Opened) /\ Opened[11] = "N"
             /\ <<Opened[12]>> \in Values(TowedArrayOptions)) =>
               /\ selectedModifier2 # undefined
               /\ selectedModifier2 = FirstWithValue(TowedArrayOptions, Opened[12])

\* A Ground Equipment code with modifiers M, O was opened.
C16_Witness ==
    /\ lastOp = "open"
    /\ InGroundEquipment(Opened)
    /\ Opened[11] = "M" /\ Opened[12] = "O"
    /\ selectedModifier2 # undefined
    /\ selectedModifier2.name = "Wheeled/Limited XCountry"

\* The catalog positions of the named entries holding the code's function.
PositionsOf(code) ==
    {i \in NamedPositions :
        \E f \in Range(emergency[i].main_icon) :
            f.battle_dimension = <<code[3]>> /\ f.code = SubSeq(code, 5, 10)}

\* C17: decode selects the first dimension, in option order, holding a
\* function whose battle dimension and code equal the code's segments: the
\* earliest when several do, none when none does.
C17_FirstMatchDimension ==
    (lastOp = "open" /\ ~threw /\ SchemeKnown(Opened)) =>
        IF PositionsOf(Opened) = {}
        THEN selectedDimension = undefined
        ELSE LET first == CHOOSE i \in PositionsOf(Opened) :
                              \A j \in PositionsOf(Opened) : i <= j
             IN  /\ selectedDimension # undefined
                 /\ selectedDimension.name = emergency[first].name
                 /\ selectedDimension.functions = emergency[first].main_icon

\* A code whose function two dimensions hold was opened.
C17_Witness ==
    /\ lastOp = "open"
    /\ SchemeKnown(Opened)
    /\ Cardinality(PositionsOf(Opened)) = 2
    /\ selectedDimension # undefined
    /\ selectedDimension.name = "Incident"

\* C19: a change of the selected dimension by the user leaves the selected
\* scheme, affiliation and status and the dimension option list as they
\* were.
C19_DimensionChangeFrame ==
    [][\A v \in Range(dimensionOptions) \cup {undefined} :
          SelectDimension(v) =>
              /\ selectedScheme' = selectedScheme
              /\ selectedAffiliation' = selectedAffiliation
              /\ selectedStatus' = selectedStatus
              /\ dimensionOptions' = dimensionOptions]_vars

\* The user moved an Incident symbol to Ground Equipment; scheme,
\* affiliation and status are still those of the code.
C19_Witness ==
    /\ lastOp = "select"
    /\ Resolves(Opened) /\ Opened[3] = "I" /\ Opened[5] = "C"
    /\ AffiliationKnown(Opened) /\ StatusKnown(Opened)
    /\ selectedDimension # undefined
    /\ selectedDimension.name = "Ground Equipment"
    /\ selectedScheme = schemeOptions[1]
    /\ selectedAffiliation = affiliationOptions[1]
    /\ selectedStatus = statusOptions[1]
    /\ ExactlyNamedEntries(dimensionOptions)

\* C18: from open to cancel the symbol is untouched and nothing is sent:
\* open sends no request, and every selection change and the cancel leave
\* the symbol (its code included) as it was and send no request.
C18_CancelDiscards ==
    [][lastOp' \in {"open", "select", "cancel"} =>
          /\ xhrs' = xhrs
          /\ outcome'.sent = <<>>
          /\ lastOp' \in {"select", "cancel"} => symbol' = symbol]_vars

\* A session on a symbol the user created was cancelled after an edit that
\* a save would have written and sent.
C18_Witness ==
    /\ lastOp = "cancel"
    /\ symbol = UserCreated(FireSymbolCode)
    /\ Encode(Self) # symbol.symbolCode
    /\ OnSaveRest(symbol).sent # <<>>
    /\ xhrs = EmptyBag

\* The database position a symbol records.
DbPosition(sym) ==
    IF sym = undefined THEN undefined
    ELSE [lat |-> sym.dbLat, lon |-> sym.dbLon, alt |-> sym.dbAlt]

\* C11: the recorded database position of the symbol and the contents of
\* the symbol manager are, when a request has failed or timed out, what
\* they were before it was issued: neither the handler that sends a
\* request nor the handlers that end a failed one change them, and the
\* latter send nothing.
C11_FailedRequestsLeaveState ==
    [][(outcome'.sent # <<>> \/ lastOp' = "fail") =>
          /\ DbPosition(symbol') = DbPosition(symbol)
          /\ manager' = manager
          /\ lastOp' = "fail" => (outcome'.sent = <<>> /\ xhrs' \sqsubseteq xhrs)]_vars

\* What the guards of a client method let through: an argument error and
\* no request when the data source is no string or the manager is missing,
\* else exactly one request of the method.
Guarded(symbolManager, method) ==
    IF TypeOf(api.dataSource) # "string" \/ ~Truthy(symbolManager)
    THEN /\ outcome'.raised = "ArgumentError"
         /\ outcome'.sent = <<>>
         /\ xhrs' = xhrs
    ELSE /\ outcome'.raised = "none"
         /\ Len(outcome'.sent) = 1
         /\ outcome'.sent[1].method = method
         /\ xhrs' = xhrs (+) SetToBag({outcome'.sent[1]})

\* C20: constructing the client on a null or undefined data source raises
\* an argument error; retrieveFires, createFire and updateFire raise an
\* argument error and send nothing when the data source is no string or
\* the symbol manager is missing, and otherwise send exactly one GET (and
\* return true), one POST, one PUT.
C20_ArgumentGuards ==
    [][/\ \A d \in {null, undefined}, w \in WorldWindArguments :
             Construct(d, w) => outcome'.raised = "ArgumentError"
       /\ \A m \in SymbolManagers :
             CallRetrieveFires(m) =>
                 /\ Guarded(m, "GET")
                 /\ outcome'.raised = "none" => outcome'.returned = Bool(TRUE)
       /\ \A m \in SymbolManagers, p \in CreateParams :
             CallCreateFire(m, p) => Guarded(m, "POST")
       /\ \A m \in SymbolManagers, p \in UpdateParams :
             CallUpdateFire(m, p) => Guarded(m, "PUT")]_vars

\* An editor right after construction (lines 47-108): nothing selected, every
\* dependent option list empty.
NewEditor ==
    [selectedScheme |-> undefined, selectedAffiliation |-> undefined,
     selectedStatus |-> undefined, selectedDimension |-> undefined,
     selectedFunction |-> undefined, selectedModifier1 |-> undefined,
     selectedModifier2 |-> undefined, dimensionOptions |-> <<>>,
     functionOptions |-> <<>>, modifierOptions1 |-> <<>>,
     modifierOptions2 |-> <<>>, threw |-> FALSE]

\* The seven selected fields of an editor.
Selections(s) ==
    <<s.selectedScheme, s.selectedAffiliation, s.selectedStatus,
      s.selectedDimension, s.selectedFunction, s.selectedModifier1,
      s.selectedModifier2>>

\* C21: session isolation. After an open that completes, the seven selected
\* fields and the code a save would write are those a newly constructed editor
\* reaches by opening the same code on the same catalog, whatever was opened,
\* edited, saved or cancelled before.
C21_SessionIsolation ==
    (lastOp = "open" /\ ~threw) =>
        /\ Selections(Self) = Selections(Decode(NewEditor, Opened))
        /\ Encode(Self) = Encode(Decode(NewEditor, Opened))

\* C22: in every state the modifier-2 option list is the mobility set when
\* the selected modifier 1 has key "M", the towed-array set when it has key
\* "N", and otherwise the list built from the selected dimension's modifier-2
\* table (empty when no dimension is selected).
C22_Modifier2OptionsInvariant ==
    IF selectedModifier1 # undefined /\ selectedModifier1.value = <<"M">>
    THEN modifierOptions2 = MobilityOptions
    ELSE IF selectedModifier1 # undefined /\ selectedModifier1.value = <<"N">>
    THEN modifierOptions2 = TowedArrayOptions
    ELSE IF selectedDimension = undefined
    THEN modifierOptions2 = <<>>
    ELSE modifierOptions2 = BuildModifierOptions2(selectedDimension)

\* The requests of a method among those a handler sent.
SentOf(method) ==
    {i \in 1..Len(outcome'.sent) : outcome'.sent[i].method = method}

\* The symbol has no recorded database latitude (null or never assigned).
Unrecorded(sym) == sym.dbLat \in {null, undefined}

\* The JavaScript inequality of two numbers or of a number and an absent
\* value: NaN differs from everything, null and undefined from every number.
NumberDiffers(a, b) ==
    IF a = NaN \/ b = NaN THEN TRUE
    ELSE IF a \in {null, undefined} /\ b \in {null, undefined} THEN FALSE
    ELSE a # b

\* A value the symbol shows differs from the one recorded from the database.
Differs(sym) ==
    \/ NumberDiffers(sym.dbLat, ParseFloat(sym.latitude))
    \/ NumberDiffers(sym.dbLon, ParseFloat(sym.longitude))
    \/ NumberDiffers(sym.dbAlt, ParseFloat(sym.altitude))
    \/ ~LooseEquals(sym.dbTimeExtinguished, sym.koTimeExtinguished)
    \/ ~LooseEquals(sym.dbIsVerified, sym.koIsVerified)

\* C23: a save writes the encoded code to the symbol and issues at most one
\* request: a POST if and only if the symbol is user-created and has no
\* recorded database latitude; otherwise a PUT to the address of the
\* symbol's fid if and only if a shown value differs from the recorded one;
\* otherwise nothing.
C23_RequestSelection ==
    [][(lastOp' = "save" /\ symbol # undefined) =>
          /\ symbol'.symbolCode = Encode(Self)
          /\ Len(outcome'.sent) <= 1
          /\ SentOf("POST") \cup SentOf("PUT") = DOMAIN outcome'.sent
          /\ xhrs' = Sends(xhrs, outcome'.sent)
          /\ IF symbol.userCreated /\ Unrecorded(symbol)
             THEN SentOf("POST") # {}
             ELSE IF Differs(symbol)
             THEN /\ SentOf("PUT") # {}
                  /\ \A i \in SentOf("PUT") :
                         outcome'.sent[i].url = Str(FiresUrl \o StringOf(symbol.fid))
             ELSE outcome'.sent = <<>>]_vars

\* C24: a user-created symbol triggers at most one create request, however
\* often it is opened, saved and cancelled and however its requests end: the
\* save that sends the POST is the first one to send any for that symbol and
\* records the database position at once, and every later save of the symbol
\* sends a PUT or nothing.
C24_AtMostOneCreate ==
    [][/\ creates' <= 1
       /\ (lastOp' = "save" /\ SentOf("POST") # {}) =>
              (creates = 0 /\ symbol.userCreated /\ ~Unrecorded(symbol'))
       /\ (lastOp' = "save" /\ creates >= 1) => SentOf("POST") = {}]_vars

\* A user-created symbol whose create was sent has been opened again and
\* saved, and that later save sent an update.
C24_Witness ==
    /\ lastOp = "save"
    /\ symbol # undefined
    /\ symbol.userCreated
    /\ creates = 1
    /\ Len(outcome.sent) = 1
    /\ outcome.sent[1].method = "PUT"

\* C25: when a retrieval sent with a symbol manager ends with status 200
\* and a body that parses, the manager gains exactly one symbol per record
\* of the body's data array, after those it held and in the order of the
\* array, each with the code "EHIPC-------" and the fid of its record; when
\* it ends with another status the manager is unchanged; when the body does
\* not parse an argument error is raised and the manager is unchanged.  (A
\* GET that requestFiresXHR sent without a manager has none to add to: its
\* status 200 ends in an argument error with the manager unchanged.)
C25_RetrievalMaterialises ==
    [][\A req \in BagToSet(xhrs), result \in Results :
          (Complete(req, result) /\ req.method = "GET") =>
              IF result.status # 200
              THEN manager' = manager
              ELSE IF "json" \notin DOMAIN result.response
                      \/ req.symbolManager = undefined
              THEN outcome'.raised = "ArgumentError" /\ manager' = manager
              ELSE LET data == result.response.json.data
                   IN  /\ outcome'.raised = "none"
                       /\ Len(manager') = Len(manager) + Len(data)
                       /\ SubSeq(manager', 1, Len(manager)) = manager
                       /\ \A i \in 1..Len(data) :
                              /\ manager'[Len(manager) + i].symbolCode =
                                     <<"E", "H", "I", "P", "C", "-", "-", "-",
                                       "-", "-", "-", "-">>
                              /\ manager'[Len(manager) + i].fid = data[i].fid]_vars

\* Two retrievals of the records 1 and 2 have ended with status 200: the
\* manager holds four symbols, the later two after the earlier two.
C25_Witness ==
    /\ lastOp = "done"
    /\ outcome.raised = "none"
    /\ Len(manager) = 4
    /\ [i \in 1..4 |-> manager[i].fid] = <<Num(1), Num(2), Num(1), Num(2)>>

====
